---- MODULE Spec2Model ----
(***************************************************************************)
(* Model of src/app.py: the three numeric functions (arithmetic sequence,  *)
(* geometric sequence, geometric series sum) and the Generate handler of   *)
(* main().                                                                 *)
(*                                                                         *)
(* Numbers.  The functions are documented to take floats and the form      *)
(* passes floats.  A double is modelled by its value when that value is an *)
(* integer of magnitude at most ExactMax (the range in which double        *)
(* arithmetic on integers is exact, 2^53 in CPython) and by the single     *)
(* token Untracked otherwise (a rounded, fractional or infinite double     *)
(* whose value the model does not follow).  FloatMax stands for the        *)
(* largest finite double: float ** int raises OverflowError beyond it,     *)
(* while +, -, * and / silently produce inf.  ExactMax and FloatMax are    *)
(* scaled down so that the three zones (exact, rounded, overflow) are all  *)
(* reached with small ratios and short sequences.                          *)
(***************************************************************************)
EXTENDS Integers, Sequences, FiniteSets, TLC

VARIABLES
    cur,            \* the latest invocation of a numeric function, with its outcome
    held,           \* an earlier invocation an observer kept (history variable)
    between,        \* invocations made since `held` was kept, capped at 2
    sequence_type,  \* main(): the selectbox value
    first_term,     \* main(): the "First Term" number_input value
    second_param,   \* main(): the "Common Difference"/"Common Ratio" number_input value
    num_terms,      \* main(): the "Number of Terms" number_input value
    page            \* what the last script run rendered below the button

vars == <<cur, held, between, sequence_type, first_term, second_param, num_terms, page>>

engineVars == <<cur, held, between>>

formVars == <<sequence_type, first_term, second_param, num_terms, page>>

-----------------------------------------------------------------------------
(* Bounds of the model *)

\* Largest magnitude at which integer-valued doubles are exact (2^53, scaled).
ExactMax == 256

\* Largest finite double (about 1.8e308, scaled).
FloatMax == 2048

\* Longest sequence requested from the numeric functions.
MaxN == 8

\* Largest first term / step handed to the numeric functions.
MaxFirst == 2

MaxStep == 3

-----------------------------------------------------------------------------
(* Double arithmetic on integer-valued doubles *)

Abs(x) == IF x < 0 THEN -x ELSE x

Untracked == ExactMax + 1

Tracked(x) == x \in -ExactMax..ExactMax

Norm(v) == IF Tracked(v) THEN v ELSE Untracked

FAdd(x, y) == IF Tracked(x) /\ Tracked(y) THEN Norm(x + y) ELSE Untracked

FSub(x, y) == IF Tracked(x) /\ Tracked(y) THEN Norm(x - y) ELSE Untracked

FMul(x, y) == IF Tracked(x) /\ Tracked(y) THEN Norm(x * y) ELSE Untracked

\* x / y for y # 0: the quotient when it is an integer, a fractional double otherwise.
FDiv(x, y) ==
    IF Tracked(x) /\ Tracked(y) /\ Abs(x) % Abs(y) = 0
    THEN LET q == Abs(x) \div Abs(y)
         IN  IF (x < 0) = (y < 0) THEN Norm(q) ELSE Norm(-q)
    ELSE Untracked

\* r^n by repeated multiplication from 1, no longer multiplied once the
\* product has left the range of finite doubles; r^0 = 1 for every r, 0 included.
RECURSIVE SatPowFrom(_, _, _)
SatPowFrom(p, r, n) ==
    IF n = 0 \/ p > FloatMax \/ -p > FloatMax THEN p
    ELSE SatPowFrom(p * r, r, n - 1)

SatPow(r, n) == SatPowFrom(1, r, n)

\* r ** n raises OverflowError when the result is outside the finite doubles.
PowOverflows(r, n) == Abs(SatPow(r, n)) > FloatMax

FPowZeroBase(r, n) == IF r = 0 THEN 0 ELSE Norm(SatPow(r, n))

\* r ** n when it does not overflow.
FPow(r, n) == Norm(SatPow(r, n))

\* sum(sequence): 0 + s[1] + s[2] + ... from the left.
RECURSIVE SumFrom(_, _, _)
SumFrom(acc, s, i) ==
    IF i > Len(s) THEN acc ELSE SumFrom(FAdd(acc, s[i]), s, i + 1)

FSum(s) == SumFrom(0, s, 1)

-----------------------------------------------------------------------------
(* Outcomes of a call *)

ReturnList(s) == [kind |-> "list", seq |-> s, num |-> 0, exc |-> "none"]

ReturnNumber(x) == [kind |-> "number", seq |-> <<>>, num |-> x, exc |-> "none"]

Raise(e) == [kind |-> "raise", seq |-> <<>>, num |-> 0, exc |-> e]

-----------------------------------------------------------------------------
(* generate_arithmetic_sequence *)

InitialSequenceShared == cur.seq

\* `sequence = []`: every call starts from a fresh empty list.
InitialSequence == << >>

ArithmeticTermOneBased(first_term_, common_difference, n) ==
    FAdd(first_term_, FMul(n + 1, common_difference))

\* term = first_term + (n * common_difference)
ArithmeticTerm(first_term_, common_difference, n) ==
    FAdd(first_term_, FMul(n, common_difference))

\* for n in range(num_terms): ... sequence.append(term)
RECURSIVE ArithmeticLoop(_, _, _, _, _)
ArithmeticLoop(first_term_, common_difference, num_terms_, n, sequence) ==
    IF n >= num_terms_ THEN sequence
    ELSE ArithmeticLoop(first_term_, common_difference, num_terms_, n + 1,
             Append(sequence, ArithmeticTerm(first_term_, common_difference, n)))

generate_arithmetic_sequence(first_term_, common_difference, num_terms_) ==
    ReturnList(ArithmeticLoop(first_term_, common_difference, num_terms_, 0,
                              InitialSequence))

-----------------------------------------------------------------------------
(* generate_geometric_sequence *)

GeometricTermOneBased(first_term_, common_ratio, n) ==
    FMul(first_term_, FPow(common_ratio, n + 1))

\* term = first_term * (common_ratio ** n), once the power has been computed
GeometricTerm(first_term_, common_ratio, n) ==
    FMul(first_term_, FPow(common_ratio, n))

\* for n in range(num_terms): the power raises OverflowError out of the loop
\* and out of the function, and no list is returned.
RECURSIVE GeometricLoop(_, _, _, _, _)
GeometricLoop(first_term_, common_ratio, num_terms_, n, sequence) ==
    IF n >= num_terms_ THEN ReturnList(sequence)
    ELSE IF PowOverflows(common_ratio, n) THEN Raise("OverflowError")
    ELSE GeometricLoop(first_term_, common_ratio, num_terms_, n + 1,
             Append(sequence, GeometricTerm(first_term_, common_ratio, n)))

generate_geometric_sequence(first_term_, common_ratio, num_terms_) ==
    GeometricLoop(first_term_, common_ratio, num_terms_, 0, InitialSequence)

-----------------------------------------------------------------------------
(* calculate_geometric_sum *)

RatioIsOneNever(common_ratio) == FALSE

\* if common_ratio == 1:
RatioIsOne(common_ratio) == common_ratio = 1

SumClosedFormSignSlip(first_term_, common_ratio, num_terms_) ==
    FDiv(FMul(first_term_, FSub(FPow(common_ratio, num_terms_), 1)),
         FSub(1, common_ratio))

\* first_term * (1 - common_ratio ** num_terms) / (1 - common_ratio),
\* once the power has been computed and the divisor is not zero
SumClosedForm(first_term_, common_ratio, num_terms_) ==
    FDiv(FMul(first_term_, FSub(1, FPow(common_ratio, num_terms_))),
         FSub(1, common_ratio))

\* The else branch evaluates the power first (OverflowError), then the
\* divisor; a float division by zero raises ZeroDivisionError.
calculate_geometric_sum(first_term_, common_ratio, num_terms_) ==
    IF RatioIsOne(common_ratio)
    THEN ReturnNumber(FMul(num_terms_, first_term_))
    ELSE IF PowOverflows(common_ratio, num_terms_) THEN Raise("OverflowError")
    ELSE IF FSub(1, common_ratio) = 0 THEN Raise("ZeroDivisionError")
    ELSE ReturnNumber(SumClosedForm(first_term_, common_ratio, num_terms_))

-----------------------------------------------------------------------------
(* Invocations of the numeric functions *)

FirstTerms == -1..MaxFirst

Steps == -2..MaxStep

TermCounts == 0..MaxN

\* The inputs of the invocations an observer compares for repeatability.
ProbeFirstTerms == {MaxFirst}

ProbeSteps == {1, MaxStep}

NoCall ==
    [fn |-> "none", a |-> 0, s |-> 0, n |-> 0,
     kind |-> "none", seq |-> << >>, num |-> 0, exc |-> "none"]

Outcome(fn, a, s, n) ==
    CASE fn = "arithmetic" -> generate_arithmetic_sequence(a, s, n)
      [] fn = "geometric"  -> generate_geometric_sequence(a, s, n)
      [] fn = "sum"        -> calculate_geometric_sum(a, s, n)

Invocation(fn, a, s, n) ==
    [fn |-> fn, a |-> a, s |-> s, n |-> n] @@ Outcome(fn, a, s, n)

CallArithmetic ==
    /\ \E a \in FirstTerms, d \in Steps, n \in TermCounts :
          cur' = Invocation("arithmetic", a, d, n)
    /\ UNCHANGED <<held, between>>
    /\ UNCHANGED formVars

CallGeometric ==
    /\ \E a \in FirstTerms, r \in Steps, n \in TermCounts :
          cur' = Invocation("geometric", a, r, n)
    /\ UNCHANGED <<held, between>>
    /\ UNCHANGED formVars

CallSum ==
    /\ \E a \in FirstTerms, r \in Steps, n \in TermCounts :
          cur' = Invocation("sum", a, r, n)
    /\ UNCHANGED <<held, between>>
    /\ UNCHANGED formVars

\* An invocation made while an observer watches: the same calls, counted.
Counted == between' = IF between < 2 THEN between + 1 ELSE 2

RepeatArithmetic ==
    /\ \E a \in ProbeFirstTerms, d \in ProbeSteps, n \in TermCounts :
          cur' = Invocation("arithmetic", a, d, n)
    /\ Counted
    /\ UNCHANGED held
    /\ UNCHANGED formVars

RepeatGeometric ==
    /\ \E a \in ProbeFirstTerms, r \in ProbeSteps, n \in TermCounts :
          cur' = Invocation("geometric", a, r, n)
    /\ Counted
    /\ UNCHANGED held
    /\ UNCHANGED formVars

RepeatSum ==
    /\ \E a \in ProbeFirstTerms, r \in ProbeSteps, n \in TermCounts :
          cur' = Invocation("sum", a, r, n)
    /\ Counted
    /\ UNCHANGED held
    /\ UNCHANGED formVars

\* The observer keeps the latest invocation and its result for later comparison.
Remember ==
    /\ cur.fn # "none"
    /\ held' = cur
    /\ between' = 0
    /\ UNCHANGED cur
    /\ UNCHANGED formVars

-----------------------------------------------------------------------------
(* main(): the form *)

\* st.selectbox options (the first is the default)
SequenceTypes == {"Arithmetic Sequence", "Geometric Sequence"}

\* max_value of the "Number of Terms" widget and the limit the handler tests
MaxTerms == 1000

\* value=10 of the "Number of Terms" widget
DefaultTerms == 10

\* value=1.0 of the "Common Difference" widget
DefaultDifference == 1

\* value=2.0 of the "Common Ratio" widget
DefaultRatio == 2

\* The second column holds one of two widgets, chosen by the sequence type;
\* a widget that (re)appears starts from its default.
DefaultSecondParam(type) ==
    IF type = "Arithmetic Sequence" THEN DefaultDifference ELSE DefaultRatio

\* Values the script can receive for "Number of Terms".  The widget's
\* min_value/max_value are enforced by the browser side of the widget; the
\* handler re-validates what it receives, so the values just outside the
\* range are submitted too.
NumTermsInputs == {-1, 0, 1, 2, DefaultTerms, MaxTerms - 1, MaxTerms, MaxTerms + 1}

\* Names bound in main() when line 146 is reached (assigned at lines 71-135)
LocalNames ==
    {"sequence_type", "first_term", "second_param", "num_terms",
     "col1", "col2", "col3"}

\* Names bound at module level (lines 1-56)
ModuleNames ==
    {"st", "generate_arithmetic_sequence", "generate_geometric_sequence",
     "calculate_geometric_sum", "main"}

\* Evaluating an unbound name raises NameError.
IsBound(name) == name \in LocalNames \cup ModuleNames

\* The value a bound local name evaluates to.
Lookup(name) ==
    CASE name = "sequence_type" -> sequence_type
      [] name = "first_term"    -> first_term
      [] name = "second_param"  -> second_param
      [] name = "num_terms"     -> num_terms

\* The exceptions the try block can raise; all derive from Exception.
ExceptionSubclasses ==
    {"NameError", "OverflowError", "ZeroDivisionError", "ValueError", "TypeError"}

CatchesValueErrorOnly(e) == e = "ValueError"

\* except Exception as e:
Catches(e) == e \in ExceptionSubclasses

\* st.error(...) texts
MsgNonPositive == [kind |-> "nonpositive", detail |-> "none"]

MsgExceeds == [kind |-> "exceeds", detail |-> "none"]

\* f"An error occurred while generating the sequence: {str(e)}"
MsgGeneric(e) == [kind |-> "generic", detail |-> e]

\* The page below the button after a run in which the button was not pressed.
BlankPage ==
    [pressed |-> FALSE, errors |-> << >>, results |-> FALSE,
     sequence |-> << >>, sum |-> 0, average |-> 0,
     invoked |-> FALSE, raised |-> "none", escaped |-> "none"]

\* return after a validation st.error
Rejected(msg) == [BlankPage EXCEPT !.pressed = TRUE, !.errors = <<msg>>]

\* An exception raised inside the try block: caught and reported, or escaping main.
RaisedInTry(e, invoked) ==
    IF Catches(e)
    THEN [BlankPage EXCEPT !.pressed = TRUE, !.invoked = invoked, !.raised = e,
                           !.errors = <<MsgGeneric(e)>>]
    ELSE [BlankPage EXCEPT !.pressed = TRUE, !.invoked = invoked, !.raised = e,
                           !.escaped = e]

\* Lines 149-215: header, metrics, sequence, table, sum and average, formula.
Rendered(seq, n) ==
    LET sequence_sum == FSum(seq)
    IN  [BlankPage EXCEPT !.pressed = TRUE, !.results = TRUE, !.invoked = TRUE,
                          !.sequence = seq, !.sum = sequence_sum,
                          !.average = FDiv(sequence_sum, n)]

NonPositiveStrict(n) == n < 0

\* if num_terms <= 0:
NonPositive(n) == n <= 0

\* if num_terms > 1000:
ExceedsMaximum(n) == n > MaxTerms

\* The body of `if st.button(...)`.  int() of the int the widget returns is
\* that int.  The call at line 146 evaluates its arguments left to right
\* before the generator is entered; whatever the sequence type, the generator
\* named there is the arithmetic one.
Handle ==
    LET n == num_terms
        args == <<"first_term", "common_difference", "num_terms">>
        unbound == {i \in 1..3 : ~IsBound(args[i])}
    IN  IF NonPositive(n) THEN Rejected(MsgNonPositive)
        ELSE IF ExceedsMaximum(n) THEN Rejected(MsgExceeds)
        ELSE IF unbound # {} THEN RaisedInTry("NameError", FALSE)
        ELSE LET out == generate_arithmetic_sequence(
                            Lookup(args[1]), Lookup(args[2]), n)
             IN  Rendered(out.seq, n)

\* Every widget interaction reruns the script with the button not pressed.
SelectType ==
    /\ \E t \in SequenceTypes :
          /\ t # sequence_type
          /\ sequence_type' = t
          /\ second_param' = DefaultSecondParam(t)
    /\ page' = BlankPage
    /\ UNCHANGED <<first_term, num_terms>>
    /\ UNCHANGED engineVars

SetFirstTerm ==
    /\ \E v \in FirstTerms : v # first_term /\ first_term' = v
    /\ page' = BlankPage
    /\ UNCHANGED <<sequence_type, second_param, num_terms>>
    /\ UNCHANGED engineVars

SetSecondParam ==
    /\ \E v \in Steps : v # second_param /\ second_param' = v
    /\ page' = BlankPage
    /\ UNCHANGED <<sequence_type, first_term, num_terms>>
    /\ UNCHANGED engineVars

SetNumTerms ==
    /\ \E v \in NumTermsInputs : v # num_terms /\ num_terms' = v
    /\ page' = BlankPage
    /\ UNCHANGED <<sequence_type, first_term, second_param>>
    /\ UNCHANGED engineVars

\* The run in which st.button returns True.
PressGenerate ==
    /\ page' = Handle
    /\ UNCHANGED <<sequence_type, first_term, second_param, num_terms>>
    /\ UNCHANGED engineVars

-----------------------------------------------------------------------------
(* Specifications *)

Init ==
    /\ cur = NoCall
    /\ held = NoCall
    /\ between = 0
    /\ sequence_type = "Arithmetic Sequence"
    /\ first_term = 1
    /\ second_param = DefaultDifference
    /\ num_terms = DefaultTerms
    /\ page = BlankPage

\* Single invocations of the numeric functions.
Next == CallArithmetic \/ CallGeometric \/ CallSum

Spec == Init /\ [][Next]_vars

\* Invocations observed over time: one is kept and compared with later ones.
NextHistory == Remember \/ RepeatArithmetic \/ RepeatGeometric \/ RepeatSum

SpecHistory == Init /\ [][NextHistory]_vars

\* The form: widget interactions and Generate presses.
NextForm ==
    SelectType \/ SetFirstTerm \/ SetSecondParam \/ SetNumTerms \/ PressGenerate

SpecForm == Init /\ [][NextForm]_vars

-----------------------------------------------------------------------------
(* Reference arithmetic for the properties: exact integers, no doubles *)

RECURSIVE Power(_, _)
Power(r, i) == IF i = 0 THEN 1 ELSE r * Power(r, i - 1)

\* a + a*r + ... + a*r^(n-1)
RECURSIVE SeriesSum(_, _, _)
SeriesSum(a, r, n) ==
    IF n = 0 THEN 0 ELSE SeriesSum(a, r, n - 1) + a * Power(r, n - 1)

\* Some power r^i, i < n, is outside the finite doubles.
PowerLeavesDoubles(r, n) == \E i \in 0..(n - 1) : Abs(Power(r, i)) > FloatMax

\* v is an integer that doubles represent and compute with exactly.
Exact(v) == Abs(v) <= ExactMax

SameInputs(x, y) == x.fn = y.fn /\ x.a = y.a /\ x.s = y.s /\ x.n = y.n

\* The three outcomes of a Generate press.
ValidationOutcome ==
    /\ page.errors \in {<<MsgNonPositive>>, <<MsgExceeds>>}
    /\ ~page.results
    /\ page.raised = "none"

GenericOutcome ==
    /\ page.raised # "none"
    /\ page.errors = <<MsgGeneric(page.raised)>>
    /\ ~page.results

ResultsOutcome ==
    /\ page.results
    /\ page.errors = << >>
    /\ page.raised = "none"

-----------------------------------------------------------------------------
(* Properties *)

\* C1: generate_arithmetic_sequence(a, d, n) returns a list of exactly n
\* elements whose element at index i is a + i*d; (1,1,5) gives [1,2,3,4,5]
\* and (10,-1,3) gives [10,9,8].
C1_ArithmeticTerms ==
    /\ cur.fn = "arithmetic" =>
          /\ cur.kind = "list"
          /\ Len(cur.seq) = cur.n
          /\ \A i \in 0..(cur.n - 1) : cur.seq[i + 1] = cur.a + i * cur.s
    /\ generate_arithmetic_sequence(1, 1, 5) = ReturnList(<<1, 2, 3, 4, 5>>)
    /\ generate_arithmetic_sequence(10, -1, 3) = ReturnList(<<10, 9, 8>>)

C1_Witness ==
    /\ cur.fn = "arithmetic"
    /\ cur.a = 2 /\ cur.s = -1 /\ cur.n = 3
    /\ cur.seq = <<2, 1, 0>>

\* C2 as stated: for every a, r and n >= 1, generate_geometric_sequence
\* returns a list of exactly n elements whose element at index i is a * r^i
\* (an element the model does not follow is taken to agree).
C2_Original ==
    (cur.fn = "geometric" /\ cur.n >= 1) =>
        /\ cur.kind = "list"
        /\ Len(cur.seq) = cur.n
        /\ \A i \in 0..(cur.n - 1) :
              cur.seq[i + 1] \in {cur.a * Power(cur.s, i), Untracked}

\* C2 amended: when every power r^i, i < n, is a finite double, the call
\* returns a list of exactly n elements whose element at index i is a * r^i
\* (exactly so wherever the product is computed exactly); when some power
\* is not, the call raises OverflowError and returns no list.
\* (2,3,4) gives [2,6,18,54].
C2_GeometricTerms ==
    /\ (cur.fn = "geometric" /\ ~PowerLeavesDoubles(cur.s, cur.n)) =>
          /\ cur.kind = "list"
          /\ Len(cur.seq) = cur.n
          /\ \A i \in 0..(cur.n - 1) :
                IF Exact(Power(cur.s, i)) /\ Exact(cur.a * Power(cur.s, i))
                THEN cur.seq[i + 1] = cur.a * Power(cur.s, i)
                ELSE cur.seq[i + 1] = Untracked
    /\ (cur.fn = "geometric" /\ PowerLeavesDoubles(cur.s, cur.n)) =>
          /\ cur.kind = "raise"
          /\ cur.exc = "OverflowError"
    /\ generate_geometric_sequence(2, 3, 4) = ReturnList(<<2, 6, 18, 54>>)

C2_Witness ==
    /\ cur.fn = "geometric"
    /\ cur.a = 2 /\ cur.s = 3 /\ cur.n = 4
    /\ cur.seq = <<2, 6, 18, 54>>

\* C3 as stated: for every a and n >= 1, calculate_geometric_sum returns
\* n*a when r = 1 and a*(1 - r^n)/(1 - r) when r # 1 (a value the model
\* does not follow is taken to agree), never dividing by zero.
C3_Original ==
    (cur.fn = "sum" /\ cur.n >= 1) =>
        /\ cur.kind = "number"
        /\ cur.s = 1 => cur.num = cur.n * cur.a
        /\ cur.s # 1 =>
              \/ cur.num = Untracked
              \/ cur.num * (1 - cur.s) = cur.a * (1 - Power(cur.s, cur.n))

\* C3 amended: calculate_geometric_sum returns n*a when r = 1; when r # 1
\* and r^n is a finite double it returns a*(1 - r^n)/(1 - r) (exactly so
\* when r^n and a*(1 - r^n) are computed exactly); when r # 1 and r^n is not
\* a finite double it raises OverflowError; it never divides by zero.
\* geometricSum(2,3,4) is 80.
C3_GeometricSum ==
    /\ cur.fn = "sum" =>
          /\ cur.exc # "ZeroDivisionError"
          /\ cur.s = 1 => (cur.kind = "number" /\ cur.num = cur.n * cur.a)
          /\ (cur.s # 1 /\ Abs(Power(cur.s, cur.n)) <= FloatMax) =>
                /\ cur.kind = "number"
                /\ IF /\ Exact(Power(cur.s, cur.n))
                      /\ Exact(cur.a * (1 - Power(cur.s, cur.n)))
                   THEN cur.num * (1 - cur.s) = cur.a * (1 - Power(cur.s, cur.n))
                   ELSE cur.num = Untracked
          /\ (cur.s # 1 /\ Abs(Power(cur.s, cur.n)) > FloatMax) =>
                (cur.kind = "raise" /\ cur.exc = "OverflowError")
    /\ calculate_geometric_sum(2, 3, 4) = ReturnNumber(80)
    /\ calculate_geometric_sum(2, 1, 4) = ReturnNumber(8)

C3_Witness ==
    /\ cur.fn = "sum"
    /\ cur.a = 2 /\ cur.s = 3 /\ cur.n = 4
    /\ cur.kind = "number" /\ cur.num = 80

\* C4: a Generate press with termCount <= 0 reports the non-positive error,
\* one with termCount > 1000 reports the exceeds-maximum error, and in both
\* cases the generator is not invoked and no results are produced.
C4_RejectedBeforeGeneration ==
    page.pressed =>
        /\ num_terms <= 0 =>
              /\ page.errors = <<MsgNonPositive>>
              /\ ~page.invoked /\ ~page.results /\ page.sequence = << >>
              /\ page.raised = "none"
        /\ num_terms > 1000 =>
              /\ page.errors = <<MsgExceeds>>
              /\ ~page.invoked /\ ~page.results /\ page.sequence = << >>
              /\ page.raised = "none"

C4_Witness ==
    /\ page.pressed
    /\ num_terms = 1001
    /\ page.errors = <<MsgExceeds>>

\* C5: a Generate press with termCount in [1, 1000] reaches the results
\* outcome: the full sequence of length termCount, its sum and its average
\* sum / termCount are presented and no error message is reported.
C5_ValidPressShowsResults ==
    (page.pressed /\ num_terms \in 1..1000) =>
        /\ ResultsOutcome
        /\ Len(page.sequence) = num_terms
        /\ page.sum = FSum(page.sequence)
        /\ page.average = FDiv(page.sum, num_terms)

\* C6: in geometric mode a Generate press with valid inputs displays the
\* geometric sequence: its term at index i is firstTerm * step^i.
C6_GeometricModeShowsGeometric ==
    (page.pressed /\ sequence_type = "Geometric Sequence" /\ num_terms \in 1..1000) =>
        /\ ResultsOutcome
        /\ Len(page.sequence) = num_terms
        /\ \A i \in 0..(num_terms - 1) :
              page.sequence[i + 1] \in {first_term * Power(second_param, i), Untracked}

\* C7: an error raised while handling a Generate press is caught at the
\* handler boundary and shown as the generic error message, it never leaves
\* main, and the handler ends in exactly one of the outcomes validation
\* error, generic error, results.
C7_ErrorsCaughtAtBoundary ==
    page.pressed =>
        /\ page.escaped = "none"
        /\ page.raised # "none" => GenericOutcome
        /\ \/ ValidationOutcome /\ ~GenericOutcome /\ ~ResultsOutcome
           \/ ~ValidationOutcome /\ GenericOutcome /\ ~ResultsOutcome
           \/ ~ValidationOutcome /\ ~GenericOutcome /\ ResultsOutcome

C7_Witness ==
    /\ page.pressed
    /\ page.raised = "NameError"
    /\ page.errors = <<MsgGeneric("NameError")>>
    /\ page.escaped = "none"

C9_ZeroRatio ==
    (cur.fn = "geometric" /\ cur.s = 0 /\ cur.n >= 1) =>
        /\ cur.kind = "list"
        /\ Len(cur.seq) = cur.n
        /\ cur.seq[1] = cur.a
        /\ \A i \in 2..cur.n : cur.seq[i] = 0

C9_Witness ==
    /\ cur.fn = "geometric"
    /\ cur.s = 0 /\ cur.a = 2 /\ cur.n = 3
    /\ cur.seq = <<2, 0, 0>>

\* C10 as stated: for all integer a, r and n >= 1, calculate_geometric_sum
\* returns the sum of the n terms of the geometric sequence (a value the
\* model does not follow is taken to agree).
C10_Original ==
    (cur.fn = "sum" /\ cur.n >= 1) =>
        /\ cur.kind = "number"
        /\ cur.num \in {SeriesSum(cur.a, cur.s, cur.n), Untracked}

\* C10 amended: for integer a, r and n >= 1 such that r^n, a*(1 - r^n) and
\* n*a are within the range where doubles compute integers exactly,
\* calculate_geometric_sum(a, r, n) equals the sum of the n terms returned
\* by generate_geometric_sequence(a, r, n).
\* The terms [2,6,18,54] sum to geometricSum(2,3,4) = 80.
C10_SumMatchesSequence ==
    /\ ( /\ cur.fn = "sum" /\ cur.n >= 1
         /\ Exact(Power(cur.s, cur.n))
         /\ Exact(cur.a * (1 - Power(cur.s, cur.n)))
         /\ Exact(cur.n * cur.a) ) =>
          LET g == generate_geometric_sequence(cur.a, cur.s, cur.n)
          IN  /\ cur.kind = "number"
              /\ g.kind = "list"
              /\ Len(g.seq) = cur.n
              /\ cur.num = FSum(g.seq)
              /\ cur.num = SeriesSum(cur.a, cur.s, cur.n)
    /\ calculate_geometric_sum(2, 3, 4).num = FSum(<<2, 6, 18, 54>>)

C10_Witness ==
    /\ cur.fn = "sum"
    /\ cur.a = 2 /\ cur.s = -2 /\ cur.n = 5
    /\ cur.num = 22

====
